---- MODULE Spec2Model ----
(***************************************************************************)
(* Order service: the Order / Item tables and the REST handlers of         *)
(* service/routes.py, each handler one atomic unit of work against the     *)
(* database (one request = one session, committed or discarded).           *)
(***************************************************************************)
EXTENDS Integers, Sequences, FiniteSets, TLC

\* ------------------------------------------------------------------------
\* Bounds of the model
\* ------------------------------------------------------------------------
\* order ids the order sequence may hand out
MaxOrders == 2
\* item ids the item sequence may hand out
MaxItems == 2
\* longest "items" list of an order payload
MaxPayloadItems == 1
\* last instant of the clock
MaxClock == 1
\* requests served at the same time, each by its own worker
MaxWorkers == 2
\* requests one worker answers while the others are still serving theirs
MaxServed == 2

VARIABLES
    orders,     \* table "order": id -> row
    items,      \* table "item":  id -> row
    order_seq,  \* last id handed out by the order primary-key sequence
    item_seq,   \* last id handed out by the item primary-key sequence
    response,   \* the request being answered and its response
    before,     \* the two tables as that request found them
    now,        \* the clock: what datetime.now(timezone.utc) returns
    sessions    \* worker -> the order its session has loaded, its answers

vars == <<orders, items, order_seq, item_seq, response, before, now, sessions>>

\* ------------------------------------------------------------------------
\* Values: JSON values of a payload, Python values of an attribute
\* ------------------------------------------------------------------------
\* a key that the payload does not have
Absent == [t |-> "absent"]
\* JSON null / Python None / SQL NULL
JNull == [t |-> "null"]
JStr(s) == [t |-> "str", v |-> s]
JNum(n) == [t |-> "num", v |-> n]
\* a member of the OrderStatus enumeration
Enum(s) == [t |-> "enum", v |-> s]

\* "key in data"
Has(data, key) == data[key] # Absent

\* OrderStatus.list(): the values in definition order
OrderStatus_list ==
    <<"PENDING", "CREATED", "IN_PROGRESS", "SHIPPED", "COMPLETED", "CANCELLED">>

\* OrderStatus.__members__
OrderStatus_members == {OrderStatus_list[i] : i \in 1..Len(OrderStatus_list)}

\* status_list.index(value)
OrderStatus_index(value) ==
    CHOOSE i \in 1..Len(OrderStatus_list) : OrderStatus_list[i] = value

\* str.upper() on the strings the payloads carry
upper(s) ==
    CASE s = "shipped" -> "SHIPPED"
      [] s = "Cancelled" -> "CANCELLED"
      [] s = "bogus" -> "BOGUS"
      [] OTHER -> s

\* ------------------------------------------------------------------------
\* Exceptions
\* ------------------------------------------------------------------------
\* an exception: its class and the parts of its message
NoError == [exc |-> "", msg |-> <<>>]
DataValidationError(msg) == [exc |-> "DataValidationError", msg |-> msg]
ValueError(msg) == [exc |-> "ValueError", msg |-> msg]
TypeError(msg) == [exc |-> "TypeError", msg |-> msg]
KeyError(key) == [exc |-> "KeyError", msg |-> <<key>>]

\* a datetime: the clock counts days, day 0 being 2025-01-01
DateTime(n) == [t |-> "datetime", v |-> n]

\* the dates the clock reaches and a date payloads name that it never reaches
IsoFormats ==
    <<"2025-01-01", "2025-01-02", "2025-01-03", "2025-01-04", "2025-01-05",
      "2025-01-06", "2025-01-07", "2025-01-08", "2025-01-09", "2025-01-10">>

\* datetime.isoformat()
isoformat(d) == JStr(IsoFormats[d.v + 1])

\* datetime.fromisoformat(x): a string that is no date is a ValueError, a
\* value that is no string a TypeError
fromisoformat(x) ==
    IF x.t # "str"
    THEN [err |-> TypeError(<<"fromisoformat: argument must be str">>),
          val |-> JNull]
    ELSE IF \E k \in 1..Len(IsoFormats) : IsoFormats[k] = x.v
         THEN [err |-> NoError,
               val |-> DateTime((CHOOSE k \in 1..Len(IsoFormats) :
                                    IsoFormats[k] = x.v) - 1)]
         ELSE [err |-> ValueError(<<"Invalid isoformat string">>),
               val |-> JNull]

\* HTTP status codes
HTTP_200_OK == 200
HTTP_201_CREATED == 201
HTTP_204_NO_CONTENT == 204
HTTP_400_BAD_REQUEST == 400
HTTP_404_NOT_FOUND == 404
HTTP_500_INTERNAL_SERVER_ERROR == 500

\* ------------------------------------------------------------------------
\* Item model
\* ------------------------------------------------------------------------
\* Item(): every column unset
Item_new ==
    [id |-> JNull, order_id |-> JNull, name |-> JNull, price |-> JNull,
     quantity |-> JNull]

\* the decimal strings the payloads carry
ParseNumber(s) ==
    CASE s = "5" -> [ok |-> TRUE, n |-> 5]
      [] s = "2" -> [ok |-> TRUE, n |-> 2]
      [] OTHER -> [ok |-> FALSE, n |-> 0]

\* float(x) / int(x) on a JSON value: a number converts, a decimal string
\* parses, any other string is a ValueError, None a TypeError
float(x) ==
    CASE x.t = "num" -> [err |-> NoError, val |-> x]
      [] x.t = "str" ->
            IF ParseNumber(x.v).ok
            THEN [err |-> NoError, val |-> JNum(ParseNumber(x.v).n)]
            ELSE [err |-> ValueError(<<"could not convert string to float">>),
                  val |-> JNull]
      [] OTHER ->
            [err |-> TypeError(<<"float() argument must be a string or a real number">>),
             val |-> JNull]

int(x) ==
    CASE x.t = "num" -> [err |-> NoError, val |-> x]
      [] x.t = "str" ->
            IF ParseNumber(x.v).ok
            THEN [err |-> NoError, val |-> JNum(ParseNumber(x.v).n)]
            ELSE [err |-> ValueError(<<"invalid literal for int() with base 10">>),
                  val |-> JNull]
      [] OTHER ->
            [err |-> TypeError(<<"int() argument must be a string or a real number">>),
             val |-> JNull]

\* the except clauses of Item.deserialize: KeyError and TypeError become a
\* DataValidationError, anything else propagates as it is
Item_deserialize_except(error) ==
    CASE error.exc = "KeyError" ->
            DataValidationError(<<"Invalid Item: missing ">> \o error.msg)
      [] error.exc = "TypeError" ->
            DataValidationError(<<"Invalid Item: incorrect data type ">> \o error.msg)
      [] OTHER -> error

\* Item.deserialize(self, data): the item as far as it was assigned, and the
\* exception raised ("" when none)
Item_deserialize(self, data) ==
    IF ~Has(data, "name")
    THEN [err |-> Item_deserialize_except(KeyError("name")), item |-> self]
    ELSE
    LET i1 == [self EXCEPT !.name = data.name] IN
    IF ~Has(data, "price")
    THEN [err |-> Item_deserialize_except(KeyError("price")), item |-> i1]
    ELSE
    LET p == float(data.price) IN
    IF p.err # NoError
    THEN [err |-> Item_deserialize_except(p.err), item |-> i1]
    ELSE
    LET i2 == [i1 EXCEPT !.price = p.val] IN
    IF ~Has(data, "quantity")
    THEN [err |-> Item_deserialize_except(KeyError("quantity")), item |-> i2]
    ELSE
    LET q == int(data.quantity) IN
    IF q.err # NoError
    THEN [err |-> Item_deserialize_except(q.err), item |-> i2]
    ELSE
    LET i3 == [i2 EXCEPT !.quantity = q.val] IN
    [err |-> NoError,
     item |-> [i3 EXCEPT !.order_id =
                  IF Has(data, "order_id") THEN data.order_id ELSE JNull]]

\* Item.serialize(self)
Item_serialize(self) ==
    [id |-> self.id, name |-> self.name, price |-> self.price,
     quantity |-> self.quantity, order_id |-> self.order_id]

\* ------------------------------------------------------------------------
\* Order model
\* ------------------------------------------------------------------------
\* Order(): every column unset, no items
Order_new ==
    [id |-> JNull, customer_name |-> JNull, status |-> JNull,
     created_at |-> JNull, updated_at |-> JNull, items |-> <<>>]

\* the loop of Order.deserialize over data["items"] without
\* self.items.append(item): each entry is deserialized, none is kept
RECURSIVE Order_deserialize_items_not_appended(_, _)
Order_deserialize_items_not_appended(item_list, appended) ==
    IF item_list = <<>>
    THEN [err |-> NoError, items |-> appended]
    ELSE LET r == Item_deserialize(Item_new, Head(item_list)) IN
         IF r.err # NoError
         THEN [err |-> r.err, items |-> appended]
         ELSE Order_deserialize_items_not_appended(Tail(item_list), appended)

\* the loop of Order.deserialize over data["items"]: each entry is
\* deserialized into a fresh Item and appended; the first exception ends it
RECURSIVE Order_deserialize_items(_, _)
Order_deserialize_items(item_list, appended) ==
    IF item_list = <<>>
    THEN [err |-> NoError, items |-> appended]
    ELSE LET r == Item_deserialize(Item_new, Head(item_list)) IN
         IF r.err # NoError
         THEN [err |-> r.err, items |-> appended]
         ELSE Order_deserialize_items(Tail(item_list), Append(appended, r.item))

\* the except clauses of Order.deserialize, without the one for KeyError
Order_deserialize_except_no_KeyError(error) ==
    CASE error.exc \in {"TypeError", "ValueError"} ->
            DataValidationError(<<"Invalid Order: ">> \o error.msg)
      [] OTHER -> error

\* the except clauses of Order.deserialize
Order_deserialize_except(error) ==
    CASE error.exc = "KeyError" ->
            DataValidationError(<<"Invalid Order: missing ">> \o error.msg)
      [] error.exc \in {"TypeError", "ValueError"} ->
            DataValidationError(<<"Invalid Order: ">> \o error.msg)
      [] OTHER -> error

\* the status check of Order.deserialize, without the membership test
Order_status_accepted_any_string(status_str) == status_str.t = "str"

\* the status check of Order.deserialize: a string whose upper case names a
\* member of OrderStatus
Order_status_accepted(status_str) ==
    /\ status_str.t = "str"
    /\ upper(status_str.v) \in OrderStatus_members

\* data.get("status", "PENDING") with another default
Order_status_str_created(data) ==
    IF Has(data, "status") THEN data.status ELSE JStr("CREATED")

\* data.get("status", "PENDING")
Order_status_str(data) ==
    IF Has(data, "status") THEN data.status ELSE JStr("PENDING")

\* Order.deserialize(self, data): the order as far as it was assigned (new
\* items appended to self.items), and the exception raised
Order_deserialize(self, data) ==
    IF ~Has(data, "customer_name")
    THEN [err |-> Order_deserialize_except(KeyError("customer_name")),
          order |-> self]
    ELSE
    LET o1 == [self EXCEPT !.customer_name = data.customer_name]
        status_str == Order_status_str(data)
    IN
    IF ~Order_status_accepted(status_str)
    THEN [err |-> DataValidationError(<<"Invalid status">>),
          order |-> o1]
    ELSE
    LET o2 == [o1 EXCEPT !.status = Enum(upper(status_str.v))]
        created_at == IF Has(data, "created_at")
                      THEN fromisoformat(data.created_at)
                      ELSE [err |-> NoError, val |-> DateTime(now)]
    IN
    IF created_at.err # NoError
    THEN [err |-> Order_deserialize_except(created_at.err), order |-> o2]
    ELSE
    LET o3 == [o2 EXCEPT !.created_at = created_at.val]
        r == Order_deserialize_items(data.items, o3.items)
    IN [err |-> Order_deserialize_except(r.err),
        order |-> [o3 EXCEPT !.items = r.items]]

\* Order.serialize(self) writing the status as its position in OrderStatus
Order_serialize_status_position(self) ==
    IF self.status.t # "enum"
    THEN [err |-> DataValidationError(<<"Invalid status value">>), json |-> JNull]
    ELSE [err |-> NoError,
          json |-> [id |-> self.id,
                    customer_name |-> self.customer_name,
                    status |-> JNum(OrderStatus_index(self.status.v)),
                    created_at |-> isoformat(self.created_at),
                    updated_at |-> isoformat(self.updated_at),
                    items |-> [i \in 1..Len(self.items) |->
                                  Item_serialize(self.items[i])]]]

\* Order.serialize(self)
Order_serialize(self) ==
    IF self.status.t # "enum"
    THEN [err |-> DataValidationError(<<"Invalid status value">>), json |-> JNull]
    ELSE IF self.created_at = JNull \/ self.updated_at = JNull
    THEN [err |-> [exc |-> "AttributeError",
                   msg |-> <<"'NoneType' object has no attribute 'isoformat'">>],
          json |-> JNull]
    ELSE [err |-> NoError,
          json |-> [id |-> self.id,
                    customer_name |-> self.customer_name,
                    status |-> JStr(self.status.v),
                    created_at |-> isoformat(self.created_at),
                    updated_at |-> isoformat(self.updated_at),
                    items |-> [i \in 1..Len(self.items) |->
                                  Item_serialize(self.items[i])]]]

\* marshal_with(order_model) on a serialized order: the fields of order_model
order_model(self) ==
    LET r == Order_serialize(self) IN
    [err |-> r.err,
     json |-> IF r.err # NoError
              THEN JNull
              ELSE [id |-> r.json.id,
                    customer_name |-> r.json.customer_name,
                    status |-> r.json.status,
                    items |-> r.json.items]]

\* ------------------------------------------------------------------------
\* Database: the two tables, their constraints, the unit of work
\* ------------------------------------------------------------------------
\* a set of ids as the ascending sequence
RECURSIVE Ascending(_)
Ascending(S) ==
    IF S = {}
    THEN <<>>
    ELSE LET m == CHOOSE x \in S : \A y \in S : x <= y
         IN <<m>> \o Ascending(S \ {m})

\* the database as the current transaction sees it
Database ==
    [err |-> NoError, orders |-> orders, items |-> items,
     order_seq |-> order_seq, item_seq |-> item_seq]

\* the row of table "item" as an Item object
Item_object(db, item_id) ==
    [id |-> JNum(item_id),
     order_id |-> db.items[item_id].order_id,
     name |-> db.items[item_id].name,
     price |-> db.items[item_id].price,
     quantity |-> db.items[item_id].quantity]

\* Order.items: the relationship, the items whose order_id is the order's id
Order_items(db, order_id) ==
    LET ids == Ascending({i \in DOMAIN db.items :
                             db.items[i].order_id = JNum(order_id)})
    IN [k \in 1..Len(ids) |-> Item_object(db, ids[k])]

\* the row of table "order" as an Order object
Order_object(db, order_id) ==
    [id |-> JNum(order_id),
     customer_name |-> db.orders[order_id].customer_name,
     status |-> db.orders[order_id].status,
     created_at |-> db.orders[order_id].created_at,
     updated_at |-> db.orders[order_id].updated_at,
     items |-> Order_items(db, order_id)]

\* the tables and sequences as a commit leaves them, or the error it raised
Unchanged(error) == [Database EXCEPT !.err = error]

\* the items of an order object that have no row yet, in list order
RECURSIVE Pending_items(_)
Pending_items(item_list) ==
    IF item_list = <<>>
    THEN <<>>
    ELSE IF Head(item_list).id = JNull
         THEN <<Head(item_list)>> \o Pending_items(Tail(item_list))
         ELSE Pending_items(Tail(item_list))

\* nullable=False columns of Item: name, price (quantity has a default)
Item_row_valid(item) == item.name # JNull /\ item.price # JNull

\* the row written for an Item object that belongs to an order
Item_row(item, order_id) ==
    [order_id |-> order_id,
     name |-> item.name,
     price |-> item.price,
     quantity |-> IF item.quantity = JNull THEN JNum(0) ELSE item.quantity]

\* commit of a session that holds an Order object: its row is inserted (id
\* from the sequence) or updated, the items appended to it are inserted with
\* order_id set to the order's id; a NULL in a nullable=False column fails
Session_commit_order(order) ==
    LET oid == IF order.id = JNull THEN order_seq + 1 ELSE order.id.v
        pending == Pending_items(order.items)
        written == [customer_name |-> order.customer_name,
                    status |-> IF order.status = JNull
                               THEN Enum("PENDING") ELSE order.status,
                    created_at |-> IF order.created_at = JNull
                                   THEN DateTime(now) ELSE order.created_at]
        modified == \/ order.id = JNull
                    \/ \E c \in DOMAIN written : written[c] # orders[oid][c]
        row == [customer_name |-> written.customer_name,
                status |-> written.status,
                created_at |-> written.created_at,
                updated_at |-> IF modified
                               THEN DateTime(now) ELSE orders[oid].updated_at]
    IN
    IF \/ order.customer_name = JNull
       \/ \E k \in 1..Len(pending) : ~Item_row_valid(pending[k])
    THEN Unchanged([exc |-> "IntegrityError", msg |-> <<"null value in column">>])
    ELSE
    [err |-> NoError,
     orders |-> [o \in DOMAIN orders \cup {oid} |->
                    IF o = oid THEN row ELSE orders[o]],
     items |-> [i \in DOMAIN items \cup (item_seq + 1 .. item_seq + Len(pending)) |->
                    IF i \in DOMAIN items
                    THEN items[i]
                    ELSE Item_row(pending[i - item_seq], JNum(oid))],
     order_seq |-> IF order.id = JNull THEN oid ELSE order_seq,
     item_seq |-> item_seq + Len(pending)]

\* commit of a session that holds a modified Item object, the foreign key of
\* order_id not enforced: the commit never fails on it
Session_commit_item_no_foreign_key(item) ==
    IF ~Item_row_valid(item)
    THEN Unchanged([exc |-> "IntegrityError", msg |-> <<"constraint violated">>])
    ELSE
    [err |-> NoError,
     orders |-> orders,
     items |-> [items EXCEPT ![item.id.v] = Item_row(item, item.order_id)],
     order_seq |-> order_seq,
     item_seq |-> item_seq]

\* commit of a session that holds a modified Item object: its row is
\* updated; order_id is a foreign key to order.id (NULL allowed)
Session_commit_item(item) ==
    IF \/ ~Item_row_valid(item)
       \/ (item.order_id # JNull /\ item.order_id.v \notin DOMAIN orders)
    THEN Unchanged([exc |-> "IntegrityError", msg |-> <<"constraint violated">>])
    ELSE
    [err |-> NoError,
     orders |-> orders,
     items |-> [items EXCEPT ![item.id.v] = Item_row(item, item.order_id)],
     order_seq |-> order_seq,
     item_seq |-> item_seq]

\* commit of a session in which an Order was deleted, the foreign key of
\* item.order_id declared without ON DELETE CASCADE and not enforced
Session_delete_order_no_cascade(order) ==
    [err |-> NoError,
     orders |-> [o \in DOMAIN orders \ {order.id.v} |-> orders[o]],
     items |-> items,
     order_seq |-> order_seq,
     item_seq |-> item_seq]

\* commit of a session in which an Order was deleted: the row goes, and with
\* it (ON DELETE CASCADE) every item row whose order_id references it
Session_delete_order(order) ==
    LET kept == {i \in DOMAIN items : items[i].order_id # order.id}
    IN [err |-> NoError,
        orders |-> [o \in DOMAIN orders \ {order.id.v} |-> orders[o]],
        items |-> [i \in kept |-> items[i]],
        order_seq |-> order_seq,
        item_seq |-> item_seq]

\* commit of a session in which an Item was deleted
Session_delete_item(item) ==
    [err |-> NoError,
     orders |-> orders,
     items |-> [i \in DOMAIN items \ {item.id.v} |-> items[i]],
     order_seq |-> order_seq,
     item_seq |-> item_seq]

\* ------------------------------------------------------------------------
\* PersistentBase: create / update / delete / find
\* ------------------------------------------------------------------------
\* a failed commit is rolled back and raised as a DataValidationError
PersistentBase_commit(committed) ==
    IF committed.err # NoError
    THEN Unchanged(DataValidationError(committed.err.msg))
    ELSE committed

\* "if not self.id"
PersistentBase_no_id(obj) == obj.id = JNull \/ obj.id.v = 0

\* Order.create(): the id is reset, the order added and committed
Order_create(order) ==
    PersistentBase_commit(Session_commit_order([order EXCEPT !.id = JNull]))

\* Order.update()
Order_update(order) ==
    IF PersistentBase_no_id(order)
    THEN Unchanged(DataValidationError(<<"Update called with empty ID field">>))
    ELSE PersistentBase_commit(Session_commit_order(order))

\* Order.delete()
Order_delete(order) == PersistentBase_commit(Session_delete_order(order))

\* Item.update()
Item_update(item) ==
    IF PersistentBase_no_id(item)
    THEN Unchanged(DataValidationError(<<"Update called with empty ID field">>))
    ELSE PersistentBase_commit(Session_commit_item(item))

\* Item.delete()
Item_delete(item) == PersistentBase_commit(Session_delete_item(item))

\* Order.find(by_id): the object, or None
Order_find(by_id) ==
    IF by_id \in DOMAIN orders THEN Order_object(Database, by_id) ELSE JNull

\* Item.find(by_id): the object, or None
Item_find(by_id) ==
    IF by_id \in DOMAIN items THEN Item_object(Database, by_id) ELSE JNull

\* ------------------------------------------------------------------------
\* Order.find_by_filters
\* ------------------------------------------------------------------------
\* "if x:" on an argument: None, "" and 0 are false
Truthy(x) == x # JNull /\ x # JStr("") /\ x # JNum(0)

\* "order_status in OrderStatus.list()"
OrderStatus_in_list(value) ==
    \E i \in 1..Len(OrderStatus_list) : OrderStatus_list[i] = value

\* Order.find_by_filters comparing the status as it was sent, without upper()
Order_find_by_filters_as_sent(customer_name, order_status, order_id, product_name) ==
    LET q0 == DOMAIN orders
        q1 == IF Truthy(customer_name)
              THEN {o \in q0 : orders[o].customer_name = customer_name}
              ELSE q0
        q2 == IF Truthy(order_status)
              THEN IF OrderStatus_in_list(order_status.v)
                   THEN {o \in q1 : orders[o].status = Enum(order_status.v)}
                   ELSE {}
              ELSE q1
        q3 == IF Truthy(order_id)
              THEN {o \in q2 : o = order_id.v}
              ELSE q2
    IN IF Truthy(product_name)
       THEN {r \in q3 \X DOMAIN items :
               /\ items[r[2]].order_id = JNum(r[1])
               /\ items[r[2]].name = product_name}
       ELSE {<<o, 0>> : o \in q3}

\* the query Order.find_by_filters builds: the rows of cls.query after the
\* filters on customer_name, status and id, and, when product_name is given,
\* their join with the item rows of that name (one row per matching item);
\* a row is <<order id, item id>>, item id 0 without the join
Order_find_by_filters(customer_name, order_status, order_id, product_name) ==
    LET q0 == DOMAIN orders
        q1 == IF Truthy(customer_name)
              THEN {o \in q0 : orders[o].customer_name = customer_name}
              ELSE q0
        q2 == IF Truthy(order_status)
              THEN IF OrderStatus_in_list(upper(order_status.v))
                   THEN {o \in q1 : orders[o].status = Enum(upper(order_status.v))}
                   ELSE {}
              ELSE q1
        q3 == IF Truthy(order_id)
              THEN {o \in q2 : o = order_id.v}
              ELSE q2
    IN IF Truthy(product_name)
       THEN {r \in q3 \X DOMAIN items :
               /\ items[r[2]].order_id = JNum(r[1])
               /\ items[r[2]].name = product_name}
       ELSE {<<o, 0>> : o \in q3}

\* the rows of a query without ORDER BY come in any order
Row_orders(S) ==
    {p \in [1..Cardinality(S) -> S] :
        \A i, j \in 1..Cardinality(S) : p[i] = p[j] => i = j}

\* a list of order ids without the repetitions of an id already seen
RECURSIVE Unique(_)
Unique(ids) ==
    IF ids = <<>>
    THEN <<>>
    ELSE LET rest == Unique(SubSeq(ids, 1, Len(ids) - 1))
             last == ids[Len(ids)]
         IN IF \E k \in 1..Len(rest) : rest[k] = last
            THEN rest
            ELSE Append(rest, last)

\* query.all() returning one Order object per row
Query_all_rows(rows) ==
    {[k \in 1..Len(p) |-> p[k][1]] : p \in Row_orders(rows)}

\* query.all() on a query for the one entity Order: the rows in any order,
\* each Order object once however many rows carry it
Query_all(rows) ==
    {Unique([k \in 1..Len(p) |-> p[k][1]]) : p \in Row_orders(rows)}

\* ------------------------------------------------------------------------
\* Requests and responses
\* ------------------------------------------------------------------------
\* the error handlers: a DataValidationError is answered 400, any other
\* exception that leaves a handler 500
Error_status(error) ==
    IF error.exc = "DataValidationError"
    THEN HTTP_400_BAD_REQUEST
    ELSE HTTP_500_INTERNAL_SERVER_ERROR

\* the request served and what it was answered
Response(op, order_id, item_id, data, code, body) ==
    [op |-> op, order_id |-> order_id, item_id |-> item_id, data |-> data,
     code |-> code, body |-> body]

\* no request is being served
NoResponse == Response("none", 0, 0, Absent, 0, JNull)

\* no tables remembered
NoTables == [orders |-> << >>, items |-> << >>]

\* the request ends with the session committed as db
Commit(db, resp) ==
    /\ orders' = db.orders
    /\ items' = db.items
    /\ order_seq' = db.order_seq
    /\ item_seq' = db.item_seq
    /\ response' = resp
    /\ before' = [orders |-> orders, items |-> items]
    /\ UNCHANGED <<now, sessions>>

\* the request ends without a commit: the session is discarded with whatever
\* the handler had assigned to its objects
Discard(resp) ==
    /\ UNCHANGED <<orders, items, order_seq, item_seq>>
    /\ response' = resp
    /\ before' = [orders |-> orders, items |-> items]
    /\ UNCHANGED <<now, sessions>>

\* abort(error_code, message)
abort(op, order_id, item_id, data, error_code, message) ==
    Discard(Response(op, order_id, item_id, data, error_code,
                     [message |-> message]))

\* an exception leaves the handler
raise(op, order_id, item_id, data, error) ==
    Discard(Response(op, order_id, item_id, data, Error_status(error),
                     [message |-> error.msg]))

\* ------------------------------------------------------------------------
\* Handlers of service/routes.py
\* ------------------------------------------------------------------------
\* GET /orders/{order_id}
OrderResource_get(order_id) ==
    LET order == Order_find(order_id) IN
    IF order = JNull
    THEN abort("retrieve_order", order_id, 0, Absent, HTTP_404_NOT_FOUND,
               <<"Order was not found">>)
    ELSE Discard(Response("retrieve_order", order_id, 0, Absent, HTTP_200_OK,
                          order_model(order).json))

\* PUT /orders/{order_id} in a session that outlives the request: what
\* deserialize assigned before it raised is committed all the same
OrderResource_put_keeps_assigned(order_id, data) ==
    /\ item_seq + Len(data.items) <= MaxItems
    /\ LET order == Order_find(order_id) IN
       IF order = JNull
       THEN abort("update_order", order_id, 0, data, HTTP_404_NOT_FOUND,
                  <<"Order was not found">>)
       ELSE
       LET r == Order_deserialize(order, data)
           db == Order_update([r.order EXCEPT !.id = JNum(order_id)])
       IN
       IF r.err # NoError
       THEN Commit(db, Response("update_order", order_id, 0, data,
                                Error_status(r.err), [message |-> r.err.msg]))
       ELSE Commit(db, Response("update_order", order_id, 0, data, HTTP_200_OK,
                                order_model(Order_object(db, order_id)).json))

\* PUT /orders/{order_id} keeping the stored status when the payload has none
OrderResource_put_status_kept(order_id, data) ==
    /\ item_seq + Len(data.items) <= MaxItems
    /\ LET order == Order_find(order_id) IN
       IF order = JNull
       THEN abort("update_order", order_id, 0, data, HTTP_404_NOT_FOUND,
                  <<"Order was not found">>)
       ELSE
       LET r == Order_deserialize(order, data) IN
       IF r.err # NoError
       THEN raise("update_order", order_id, 0, data, r.err)
       ELSE
       LET db == Order_update([r.order EXCEPT
                                  !.id = JNum(order_id),
                                  !.status = IF Has(data, "status")
                                             THEN @ ELSE order.status])
       IN
       IF db.err # NoError
       THEN raise("update_order", order_id, 0, data, db.err)
       ELSE Commit(db, Response("update_order", order_id, 0, data, HTTP_200_OK,
                                order_model(Order_object(db, order_id)).json))

\* PUT /orders/{order_id}
OrderResource_put(order_id, data) ==
    /\ item_seq + Len(data.items) <= MaxItems
    /\ LET order == Order_find(order_id) IN
       IF order = JNull
       THEN abort("update_order", order_id, 0, data, HTTP_404_NOT_FOUND,
                  <<"Order was not found">>)
       ELSE
       LET r == Order_deserialize(order, data) IN
       IF r.err # NoError
       THEN raise("update_order", order_id, 0, data, r.err)
       ELSE
       LET db == Order_update([r.order EXCEPT !.id = JNum(order_id)]) IN
       IF db.err # NoError
       THEN raise("update_order", order_id, 0, data, db.err)
       ELSE Commit(db, Response("update_order", order_id, 0, data, HTTP_200_OK,
                                order_model(Order_object(db, order_id)).json))

\* DELETE /orders/{order_id}, answering Not Found when no such order is stored
OrderResource_delete_absent_404(order_id) ==
    LET order == Order_find(order_id) IN
    IF order # JNull
    THEN LET db == Order_delete(order) IN
         Commit(db, Response("delete_order", order_id, 0, Absent,
                             HTTP_204_NO_CONTENT, JNull))
    ELSE abort("delete_order", order_id, 0, Absent, HTTP_404_NOT_FOUND,
               <<"Order was not found">>)

\* DELETE /orders/{order_id}
OrderResource_delete(order_id) ==
    LET order == Order_find(order_id) IN
    IF order # JNull
    THEN LET db == Order_delete(order) IN
         IF db.err # NoError
         THEN raise("delete_order", order_id, 0, Absent, db.err)
         ELSE Commit(db, Response("delete_order", order_id, 0, Absent,
                                  HTTP_204_NO_CONTENT, JNull))
    ELSE Discard(Response("delete_order", order_id, 0, Absent,
                          HTTP_204_NO_CONTENT, JNull))

\* GET /orders
OrderCollection_get(args) ==
    \E filtered_orders \in
          Query_all(Order_find_by_filters(args.customer_name, args.status,
                                          args.order_id, args.product_name)) :
       Discard(Response("list_orders", 0, 0, args, HTTP_200_OK,
                        [k \in 1..Len(filtered_orders) |->
                            order_model(
                                Order_object(Database, filtered_orders[k])).json]))

\* POST /orders
OrderCollection_post(data) ==
    /\ order_seq < MaxOrders
    /\ item_seq + Len(data.items) <= MaxItems
    /\ LET r == Order_deserialize(Order_new, data) IN
       IF r.err # NoError
       THEN raise("create_order", 0, 0, data, r.err)
       ELSE
       LET db == Order_create(r.order) IN
       IF db.err # NoError
       THEN raise("create_order", 0, 0, data, db.err)
       ELSE Commit(db, Response("create_order", 0, 0, data, HTTP_201_CREATED,
                                order_model(Order_object(db, db.order_seq)).json))

\* PUT /orders/{order_id}/cancel, refusing a COMPLETED order as the advance does
OrderCancelResource_put_refuses_completed(order_id) ==
    LET order == Order_find(order_id) IN
    IF order = JNull
    THEN abort("cancel_order", order_id, 0, Absent, HTTP_404_NOT_FOUND,
               <<"Order was not found">>)
    ELSE
    IF order.status = Enum("COMPLETED")
    THEN abort("cancel_order", order_id, 0, Absent, HTTP_400_BAD_REQUEST,
               <<"Cannot cancel an order that is COMPLETED">>)
    ELSE
    LET db == Order_update([order EXCEPT !.status = Enum("CANCELLED")]) IN
    Commit(db, Response("cancel_order", order_id, 0, Absent, HTTP_200_OK,
                        order_model(Order_object(db, order_id)).json))

\* PUT /orders/{order_id}/cancel
OrderCancelResource_put(order_id) ==
    LET order == Order_find(order_id) IN
    IF order = JNull
    THEN abort("cancel_order", order_id, 0, Absent, HTTP_404_NOT_FOUND,
               <<"Order was not found">>)
    ELSE
    LET db == Order_update([order EXCEPT !.status = Enum("CANCELLED")]) IN
    IF db.err # NoError
    THEN raise("cancel_order", order_id, 0, Absent, db.err)
    ELSE Commit(db, Response("cancel_order", order_id, 0, Absent, HTTP_200_OK,
                             order_model(Order_object(db, order_id)).json))

\* the statuses OrderUpdateResource.put refuses to leave, COMPLETED forgotten
Terminal_statuses_cancelled_only == {Enum("CANCELLED")}

\* the statuses OrderUpdateResource.put refuses to leave
Terminal_statuses == {Enum("COMPLETED"), Enum("CANCELLED")}

\* the status two places after order_status in OrderStatus.list()
Next_status_skips_one(order_status) ==
    Enum(OrderStatus_list[OrderStatus_index(order_status.v) + 2])

\* the status after order_status in OrderStatus.list()
Next_status(order_status) ==
    Enum(OrderStatus_list[OrderStatus_index(order_status.v) + 1])

\* PUT /orders/{order_id}/update
OrderUpdateResource_put(order_id) ==
    LET order == Order_find(order_id) IN
    IF order = JNull
    THEN abort("update_order_status", order_id, 0, Absent, HTTP_404_NOT_FOUND,
               <<"Order was not found">>)
    ELSE
    IF order.items = <<>>
    THEN abort("update_order_status", order_id, 0, Absent, HTTP_400_BAD_REQUEST,
               <<"Cannot change status of order with no items">>)
    ELSE
    IF order.status \in Terminal_statuses
    THEN abort("update_order_status", order_id, 0, Absent, HTTP_400_BAD_REQUEST,
               <<"Cannot change the status of an order that is COMPLETED or CANCELLED">>)
    ELSE
    LET db == Order_update([order EXCEPT !.status = Next_status(order.status)]) IN
    IF db.err # NoError
    THEN raise("update_order_status", order_id, 0, Absent, db.err)
    ELSE Commit(db, Response("update_order_status", order_id, 0, Absent,
                             HTTP_200_OK,
                             [order_id |-> JNum(order_id),
                              status |-> JStr(db.orders[order_id].status.v)]))

\* GET /orders/{order_id}/items
OrderItemCollection_get(order_id) ==
    LET order == Order_find(order_id) IN
    IF order = JNull
    THEN abort("list_items", order_id, 0, Absent, HTTP_404_NOT_FOUND,
               <<"Order was not found">>)
    ELSE Discard(Response("list_items", order_id, 0, Absent, HTTP_200_OK,
                          [i \in 1..Len(order.items) |->
                              Item_serialize(order.items[i])]))

\* POST /orders/{order_id}/items, a new item putting the order back to PENDING
OrderItemCollection_post_reopens(order_id, data) ==
    /\ item_seq < MaxItems
    /\ LET order == Order_find(order_id) IN
       IF order = JNull
       THEN abort("create_item", order_id, 0, data, HTTP_404_NOT_FOUND,
                  <<"Order could not be found">>)
       ELSE
       LET r == Item_deserialize(Item_new, data) IN
       IF r.err # NoError
       THEN raise("create_item", order_id, 0, data, r.err)
       ELSE
       LET db == Order_update([order EXCEPT !.items = Append(@, r.item),
                                            !.status = Enum("PENDING")])
       IN Commit(db, Response("create_item", order_id, db.item_seq, data,
                              HTTP_201_CREATED,
                              Item_serialize(Item_object(db, db.item_seq))))

\* POST /orders/{order_id}/items
OrderItemCollection_post(order_id, data) ==
    /\ item_seq < MaxItems
    /\ LET order == Order_find(order_id) IN
       IF order = JNull
       THEN abort("create_item", order_id, 0, data, HTTP_404_NOT_FOUND,
                  <<"Order could not be found">>)
       ELSE
       LET r == Item_deserialize(Item_new, data) IN
       IF r.err # NoError
       THEN raise("create_item", order_id, 0, data, r.err)
       ELSE
       LET db == Order_update([order EXCEPT !.items = Append(@, r.item)]) IN
       IF db.err # NoError
       THEN raise("create_item", order_id, 0, data, db.err)
       ELSE Commit(db, Response("create_item", order_id, db.item_seq, data,
                                HTTP_201_CREATED,
                                Item_serialize(Item_object(db, db.item_seq))))

\* "not item": the owner of the item is not compared with the order addressed
Item_not_in_order_absent_only(item, order_id) == item = JNull

\* "not item or item.order_id != order_id"
Item_not_in_order(item, order_id) ==
    item = JNull \/ item.order_id # JNum(order_id)

\* GET /orders/{order_id}/items/{item_id}
ItemResource_get(order_id, item_id) ==
    LET item == Item_find(item_id) IN
    IF Item_not_in_order(item, order_id)
    THEN abort("retrieve_item", order_id, item_id, Absent, HTTP_404_NOT_FOUND,
               <<"Item could not be found">>)
    ELSE Discard(Response("retrieve_item", order_id, item_id, Absent,
                          HTTP_200_OK, Item_serialize(item)))

\* PUT /orders/{order_id}/items/{item_id}
ItemResource_put(order_id, item_id, data) ==
    LET order == Order_find(order_id)
        item == Item_find(item_id)
    IN
    IF order = JNull
    THEN abort("update_item", order_id, item_id, data, HTTP_404_NOT_FOUND,
               <<"Order could not be found">>)
    ELSE
    IF Item_not_in_order(item, order_id)
    THEN abort("update_item", order_id, item_id, data, HTTP_404_NOT_FOUND,
               <<"Item could not be found">>)
    ELSE
    LET r == Item_deserialize(item, data) IN
    IF r.err # NoError
    THEN raise("update_item", order_id, item_id, data, r.err)
    ELSE
    LET db == Item_update([r.item EXCEPT !.id = JNum(item_id)]) IN
    IF db.err # NoError
    THEN raise("update_item", order_id, item_id, data, db.err)
    ELSE Commit(db, Response("update_item", order_id, item_id, data, HTTP_200_OK,
                             Item_serialize(Item_object(db, item_id))))

\* DELETE /orders/{order_id}/items/{item_id}
ItemResource_delete(order_id, item_id) ==
    LET order == Order_find(order_id)
        item == Item_find(item_id)
    IN
    IF order = JNull
    THEN abort("delete_item", order_id, item_id, Absent, HTTP_404_NOT_FOUND,
               <<"Order could not be found">>)
    ELSE
    IF item # JNull
    THEN LET db == Item_delete(item) IN
         IF db.err # NoError
         THEN raise("delete_item", order_id, item_id, Absent, db.err)
         ELSE Commit(db, Response("delete_item", order_id, item_id, Absent,
                                  HTTP_204_NO_CONTENT, JNull))
    ELSE Discard(Response("delete_item", order_id, item_id, Absent,
                          HTTP_204_NO_CONTENT, JNull))

\* ------------------------------------------------------------------------
\* The requests a client sends
\* ------------------------------------------------------------------------
\* ids in a path: 0 is never a row's id, the sequences start at 1
OrderIds == 0..MaxOrders
ItemIds == 0..MaxItems

\* item payloads: complete; numbers sent as decimal strings, with the id of
\* an order to attach to; negative price and quantity, naming another order;
\* no name; price and quantity that are no numbers; a null price
ItemPayloads ==
    { [name |-> JStr("pen"), price |-> JNum(5), quantity |-> JNum(2),
       order_id |-> Absent],
      [name |-> JStr("pen"), price |-> JStr("5"), quantity |-> JStr("2"),
       order_id |-> JNum(2)],
      [name |-> JStr("ink"), price |-> JNum(-1), quantity |-> JNum(-1),
       order_id |-> JNum(1)],
      [name |-> Absent, price |-> JNum(5), quantity |-> JNum(2),
       order_id |-> Absent],
      [name |-> JStr("pen"), price |-> JStr("free"), quantity |-> JStr("many"),
       order_id |-> Absent],
      [name |-> JStr("pen"), price |-> JNull, quantity |-> JNum(2),
       order_id |-> Absent] }

\* the item payloads that come nested in an order payload
NestedItemPayloads ==
    {p \in ItemPayloads :
        /\ p.order_id = Absent
        /\ p.price \in {JNum(5), JStr("free")}}

\* the lists of at most n nested item payloads
RECURSIVE ItemLists(_)
ItemLists(n) ==
    IF n = 0
    THEN {<<>>}
    ELSE ItemLists(n - 1) \cup
         {Append(l, p) : l \in {x \in ItemLists(n - 1) : Len(x) = n - 1},
                         p \in NestedItemPayloads}

\* customer_name and status of an order payload: the key missing, a string
\* (empty, a status in upper or lower case, no status), a number
CustomerNames == {Absent, JStr(""), JStr("alice")}
Statuses ==
    {Absent, JNum(7)} \cup
    {JStr(s) : s \in OrderStatus_members \cup {"shipped", "BOGUS"}}

\* order payloads: every customer_name with every status and no items, and
\* every list of items under a customer_name, with and without a status
OrderPayloads ==
    [customer_name : CustomerNames, status : Statuses,
     created_at : {Absent}, items : {<<>>}]
    \cup
    [customer_name : {JStr("alice")}, status : {Absent, JStr("SHIPPED")},
     created_at : {Absent}, items : ItemLists(MaxPayloadItems)]

\* query strings of GET /orders: an argument left out is None; the ones sent
\* are an empty value, a customer, a status in lower case or unknown, an id
\* that is or is not stored, an item name
ArgCustomerNames == {JNull, JStr(""), JStr("alice")}
ArgStatuses == {JNull, JStr(""), JStr("shipped"), JStr("BOGUS")}
ArgOrderIds == {JNull, JNum(0), JNum(1)}
ArgProductNames == {JNull, JStr(""), JStr("pen")}

\* page and page_size of a query string: order_args declares neither, so
\* parse_args() drops them and the handler never reads them
ArgPages == {JNull, JNum(1), JNum(2)}
ArgPageSizes == {JNull, JNum(1)}

\* at most two filters sent with a request; a page or a page size only with
\* no filter or the filter on a customer
OrderArgs ==
    {a \in [customer_name : ArgCustomerNames, status : ArgStatuses,
            order_id : ArgOrderIds, product_name : ArgProductNames,
            page : {JNull}, page_size : {JNull}] :
        Cardinality({f \in {"customer_name", "status", "order_id",
                            "product_name"} : a[f] # JNull}) <= 2}
    \cup
    [customer_name : {JNull, JStr("alice")}, status : {JNull},
     order_id : {JNull}, product_name : {JNull},
     page : ArgPages, page_size : ArgPageSizes]

\* the workers of the server, one request and one session each at a time
Workers == 1..MaxWorkers

\* a worker between two requests, none answered
NoSession == [loaded |-> JNull, served |-> <<>>]

\* the body of GET /orders/{order_id} sent back as a payload: id,
\* customer_name, status and the items, each with its id and order_id
Representation(order_id) ==
    LET body == order_model(Order_find(order_id)).json IN
    [id |-> body.id, customer_name |-> body.customer_name,
     status |-> body.status, created_at |-> Absent, items |-> body.items]

\* ------------------------------------------------------------------------
\* Specification
\* ------------------------------------------------------------------------
Init ==
    /\ orders = << >>
    /\ items = << >>
    /\ order_seq = 0
    /\ item_seq = 0
    /\ response = NoResponse
    /\ before = NoTables
    /\ now = 0
    /\ sessions = [w \in Workers |-> NoSession]

\* the client takes the response; the service is ready for the next request
Deliver ==
    /\ response # NoResponse
    /\ response' = NoResponse
    /\ before' = NoTables
    /\ UNCHANGED <<orders, items, order_seq, item_seq, now, sessions>>

\* one request is served at a time, from its arrival to its response
Serve ==
    \/ /\ response = NoResponse
       /\ \E order_id \in OrderIds : OrderResource_get(order_id)
    \/ /\ response = NoResponse
       /\ \E order_id \in OrderIds, data \in OrderPayloads :
             OrderResource_put(order_id, data)
    \/ /\ response = NoResponse
       /\ \E order_id \in DOMAIN orders :
             OrderResource_put(order_id, Representation(order_id))
    \/ /\ response = NoResponse
       /\ \E order_id \in OrderIds : OrderResource_delete(order_id)
    \/ /\ response = NoResponse
       /\ \E args \in OrderArgs : OrderCollection_get(args)
    \/ /\ response = NoResponse
       /\ \E data \in OrderPayloads : OrderCollection_post(data)
    \/ /\ response = NoResponse
       /\ \E order_id \in OrderIds : OrderCancelResource_put(order_id)
    \/ /\ response = NoResponse
       /\ \E order_id \in OrderIds : OrderUpdateResource_put(order_id)
    \/ /\ response = NoResponse
       /\ \E order_id \in OrderIds : OrderItemCollection_get(order_id)
    \/ /\ response = NoResponse
       /\ \E order_id \in OrderIds, data \in ItemPayloads :
             OrderItemCollection_post(order_id, data)
    \/ /\ response = NoResponse
       /\ \E order_id \in OrderIds, item_id \in ItemIds :
             ItemResource_get(order_id, item_id)
    \/ /\ response = NoResponse
       /\ \E order_id \in OrderIds, item_id \in ItemIds, data \in ItemPayloads :
             ItemResource_put(order_id, item_id, data)
    \/ /\ response = NoResponse
       /\ \E order_id \in OrderIds, item_id \in ItemIds :
             ItemResource_delete(order_id, item_id)

Next ==
    \/ Serve
    \/ Deliver

Spec == Init /\ [][Next]_vars

\* ------------------------------------------------------------------------
\* Specification with a running clock
\* ------------------------------------------------------------------------
\* Spec serves all its requests at one instant (no payload names a
\* created_at, the clock stands at 0); here the clock runs between requests
\* and order payloads may carry a created_at: a past date, a date the clock
\* never reaches, a string that is no date
TimedOrderPayloads ==
    [customer_name : {JStr("alice")},
     status : {Absent},
     created_at : {Absent, JStr("2025-01-01"), JStr("2025-01-10"),
                   JStr("yesterday")},
     items : {<<>>}]

\* the complete item payloads
TimedItemPayloads ==
    {p \in ItemPayloads : p.price = JNum(5) /\ Has(p, "name")}

\* time passes between two requests
Tick ==
    /\ response = NoResponse
    /\ now < MaxClock
    /\ now' = now + 1
    /\ UNCHANGED <<orders, items, order_seq, item_seq, response, before, sessions>>

ServeTimed ==
    \/ /\ response = NoResponse
       /\ \E data \in TimedOrderPayloads : OrderCollection_post(data)
    \/ /\ response = NoResponse
       /\ \E order_id \in OrderIds, data \in TimedOrderPayloads :
             OrderResource_put(order_id, data)
    \/ /\ response = NoResponse
       /\ \E order_id \in OrderIds : OrderResource_delete(order_id)
    \/ /\ response = NoResponse
       /\ \E order_id \in OrderIds : OrderCancelResource_put(order_id)
    \/ /\ response = NoResponse
       /\ \E order_id \in OrderIds : OrderUpdateResource_put(order_id)
    \/ /\ response = NoResponse
       /\ \E order_id \in OrderIds, data \in TimedItemPayloads :
             OrderItemCollection_post(order_id, data)
    \/ /\ response = NoResponse
       /\ \E order_id \in OrderIds, item_id \in ItemIds :
             ItemResource_delete(order_id, item_id)

TimedNext ==
    \/ ServeTimed
    \/ Tick
    \/ Deliver

TimedSpec == Init /\ [][TimedNext]_vars

\* ------------------------------------------------------------------------
\* Specification with requests served at the same time
\* ------------------------------------------------------------------------
\* Each worker serves its request in its own session. Order.find() loads the
\* row; the handler decides on the loaded object; order.update() commits: an
\* UPDATE of the columns the handler assigned a new value, by primary key.
\* Between the two, the other workers may load and commit. Orders come from
\* POST /orders while no worker is serving; `before` holds the tables as the
\* first request of a burst found them.

\* order payloads with one item, to be advanced from PENDING or from SHIPPED
ConcurrentOrderPayloads ==
    [customer_name : {JStr("alice")}, status : {Absent, JStr("SHIPPED")},
     created_at : {Absent},
     items : {l \in ItemLists(MaxPayloadItems) :
                 Len(l) = 1 /\ l[1].price = JNum(5) /\ Has(l[1], "name")}]

\* no worker is serving a request and none has answered one
Quiescent == \A w \in Workers : sessions[w] = NoSession

\* the worker's session loads the order: order = Order.find(order_id)
Session_load(w, op, order_id) ==
    /\ sessions[w].loaded = JNull
    /\ Len(sessions[w].served) < MaxServed
    /\ sessions' = [sessions EXCEPT ![w].loaded =
                       [op |-> op, order_id |-> order_id,
                        order |-> Order_find(order_id)]]
    /\ before' = IF Quiescent THEN [orders |-> orders, items |-> items]
                 ELSE before
    /\ UNCHANGED <<orders, items, order_seq, item_seq, response, now>>

\* commit of a session that holds an Order object it loaded and a handler
\* assigned a status to: an UPDATE of status and updated_at if the status
\* assigned is not the one loaded, no statement otherwise
Session_commit_loaded(loaded, order) ==
    IF order.status = loaded.status
    THEN Database
    ELSE [Database EXCEPT
             !.orders = [orders EXCEPT
                            ![order.id.v].status = order.status,
                            ![order.id.v].updated_at = DateTime(now)]]

\* Order.update() in the session that loaded the order
Order_update_loaded(loaded, order) ==
    IF PersistentBase_no_id(order)
    THEN Unchanged(DataValidationError(<<"Update called with empty ID field">>))
    ELSE PersistentBase_commit(Session_commit_loaded(loaded, order))

\* the worker answers its request, its session committed as db
Session_close(w, db, code) ==
    /\ orders' = db.orders
    /\ items' = db.items
    /\ sessions' = [sessions EXCEPT
                       ![w].loaded = JNull,
                       ![w].served = Append(@, [op |-> sessions[w].loaded.op,
                                                order_id |-> sessions[w].loaded.order_id,
                                                code |-> code])]
    /\ UNCHANGED <<order_seq, item_seq, response, before, now>>

\* PUT /orders/{order_id}/cancel, up to "order = Order.find(order_id)"
OrderCancelResource_put_find(w, order_id) ==
    /\ response = NoResponse
    /\ Session_load(w, "cancel_order", order_id)

\* PUT /orders/{order_id}/cancel, from "if not order:" to the return
OrderCancelResource_put_update(w) ==
    /\ sessions[w].loaded # JNull
    /\ sessions[w].loaded.op = "cancel_order"
    /\ LET order == sessions[w].loaded.order IN
       IF order = JNull
       THEN Session_close(w, Database, HTTP_404_NOT_FOUND)
       ELSE
       LET db == Order_update_loaded(order,
                                     [order EXCEPT !.status = Enum("CANCELLED")])
       IN IF db.err # NoError
          THEN Session_close(w, Database, Error_status(db.err))
          ELSE Session_close(w, db, HTTP_200_OK)

\* PUT /orders/{order_id}/update, up to "order = Order.find(order_id)"
OrderUpdateResource_put_find(w, order_id) ==
    /\ response = NoResponse
    /\ Session_load(w, "update_order_status", order_id)

\* PUT /orders/{order_id}/update, from "if not order:" to the return
OrderUpdateResource_put_update(w) ==
    /\ sessions[w].loaded # JNull
    /\ sessions[w].loaded.op = "update_order_status"
    /\ LET order == sessions[w].loaded.order IN
       IF order = JNull
       THEN Session_close(w, Database, HTTP_404_NOT_FOUND)
       ELSE
       IF order.items = <<>>
       THEN Session_close(w, Database, HTTP_400_BAD_REQUEST)
       ELSE
       IF order.status \in Terminal_statuses
       THEN Session_close(w, Database, HTTP_400_BAD_REQUEST)
       ELSE
       LET db == Order_update_loaded(order,
                                     [order EXCEPT !.status = Next_status(order.status)])
       IN IF db.err # NoError
          THEN Session_close(w, Database, Error_status(db.err))
          ELSE Session_close(w, db, HTTP_200_OK)

\* every worker has answered: the burst of requests is over
Rest ==
    /\ ~Quiescent
    /\ \A w \in Workers : sessions[w].loaded = JNull
    /\ sessions' = [w \in Workers |-> NoSession]
    /\ before' = NoTables
    /\ UNCHANGED <<orders, items, order_seq, item_seq, response, now>>

ServeConcurrent ==
    \/ /\ response = NoResponse
       /\ Quiescent
       /\ \E data \in ConcurrentOrderPayloads : OrderCollection_post(data)
    \/ \E w \in Workers, order_id \in 1..MaxOrders :
          OrderCancelResource_put_find(w, order_id)
    \/ \E w \in Workers : OrderCancelResource_put_update(w)
    \/ \E w \in Workers, order_id \in 1..MaxOrders :
          OrderUpdateResource_put_find(w, order_id)
    \/ \E w \in Workers : OrderUpdateResource_put_update(w)

ConcurrentNext ==
    \/ ServeConcurrent
    \/ Rest
    \/ Deliver

ConcurrentSpec == Init /\ [][ConcurrentNext]_vars

\* ------------------------------------------------------------------------
\* Properties
\* ------------------------------------------------------------------------
\* the tables as the request being answered left them
Stored == [orders |-> orders, items |-> items]

\* a request of this kind is being answered
Answered(op) == response.op = op

\* the status name of a stored order
StatusOf(tables, o) == tables.orders[o].status.v

\* the ids of the items attached to an order
ItemsOf(tables, o) ==
    {i \in DOMAIN tables.items : tables.items[i].order_id = JNum(o)}

\* the request being answered changed no row
TablesUnchanged == orders = before.orders /\ items = before.items

\* the lifecycle sequence PENDING, CREATED, IN_PROGRESS, SHIPPED, COMPLETED
Successor(s) ==
    CASE s = "PENDING" -> "CREATED"
      [] s = "CREATED" -> "IN_PROGRESS"
      [] s = "IN_PROGRESS" -> "SHIPPED"
      [] s = "SHIPPED" -> "COMPLETED"

\* the status a payload value names whatever its letter case, "" if none
RecognizedAs(x) ==
    IF x.t # "str"
    THEN ""
    ELSE CASE x.v \in {"PENDING", "CREATED", "IN_PROGRESS", "SHIPPED",
                       "COMPLETED", "CANCELLED"} -> x.v
           [] x.v = "shipped" -> "SHIPPED"
           [] OTHER -> ""

\* an item payload with a name and a numeric price and quantity
IsNumeric(x) == x.t = "num" \/ (x.t = "str" /\ x.v \in {"5", "2"})
ItemPayloadComplete(p) ==
    Has(p, "name") /\ IsNumeric(p.price) /\ IsNumeric(p.quantity)

\* C1: advancing a stored order that has an item and whose status is PENDING,
\* CREATED, IN_PROGRESS or SHIPPED answers 200 and stores exactly the next
\* status of the sequence (so four advances from PENDING pass CREATED,
\* IN_PROGRESS, SHIPPED, COMPLETED); advancing it from COMPLETED fails; and
\* an advance never makes an order CANCELLED.
C1_AdvanceToSuccessor ==
    Answered("update_order_status") =>
        LET o == response.order_id
            advanced == /\ o \in DOMAIN before.orders
                        /\ ItemsOf(before, o) # {}
        IN
        /\ (advanced /\ StatusOf(before, o) \in
                           {"PENDING", "CREATED", "IN_PROGRESS", "SHIPPED"})
              => /\ response.code = 200
                 /\ StatusOf(Stored, o) = Successor(StatusOf(before, o))
                 /\ response.body.status = JStr(Successor(StatusOf(before, o)))
        /\ (advanced /\ StatusOf(before, o) = "COMPLETED")
              => /\ response.code # 200
                 /\ StatusOf(Stored, o) = "COMPLETED"
        /\ \A p \in DOMAIN orders :
              StatusOf(Stored, p) = "CANCELLED"
                 => p \in DOMAIN before.orders /\ StatusOf(before, p) = "CANCELLED"

\* C1 witness: the fourth advance, SHIPPED to COMPLETED
C1_Witness ==
    /\ Answered("update_order_status")
    /\ response.code = 200
    /\ StatusOf(before, response.order_id) = "SHIPPED"
    /\ StatusOf(Stored, response.order_id) = "COMPLETED"

\* C2: advancing an existing order that has no item (whatever its status) or
\* whose status is COMPLETED or CANCELLED answers 400 and changes no row;
\* advancing an id that is not stored answers 404.
C2_AdvanceRefused ==
    Answered("update_order_status") =>
        LET o == response.order_id IN
        /\ o \notin DOMAIN before.orders
              => response.code = 404 /\ TablesUnchanged
        /\ (/\ o \in DOMAIN before.orders
            /\ \/ ItemsOf(before, o) = {}
               \/ StatusOf(before, o) \in {"COMPLETED", "CANCELLED"})
              => response.code = 400 /\ TablesUnchanged

\* C2 witness: a COMPLETED order with an item is refused
C2_Witness ==
    /\ Answered("update_order_status")
    /\ response.order_id \in DOMAIN before.orders
    /\ ItemsOf(before, response.order_id) # {}
    /\ StatusOf(before, response.order_id) = "COMPLETED"
    /\ response.code = 400

\* C3: cancelling an existing order answers 200 and stores CANCELLED, whatever
\* its status was and whether or not it has items; cancelling an id that is
\* not stored answers 404 and changes no row.
C3_CancelAlwaysSucceeds ==
    Answered("cancel_order") =>
        LET o == response.order_id IN
        /\ o \in DOMAIN before.orders
              => /\ response.code = 200
                 /\ o \in DOMAIN orders
                 /\ StatusOf(Stored, o) = "CANCELLED"
                 /\ response.body.status = JStr("CANCELLED")
        /\ o \notin DOMAIN before.orders
              => response.code = 404 /\ TablesUnchanged

\* C3 witness: an order without items that was COMPLETED is cancelled
C3_Witness ==
    /\ Answered("cancel_order")
    /\ response.code = 200
    /\ StatusOf(before, response.order_id) = "COMPLETED"
    /\ ItemsOf(before, response.order_id) = {}
    /\ StatusOf(Stored, response.order_id) = "CANCELLED"

\* C4 as claimed: an order that is CANCELLED is CANCELLED after every request,
\* as long as it is stored.
C4_CancelledIsAbsorbing ==
    \A o \in DOMAIN before.orders \cap DOMAIN orders :
        StatusOf(before, o) = "CANCELLED" => StatusOf(Stored, o) = "CANCELLED"

\* C4 as amended: an order that is CANCELLED stays CANCELLED, as long as it is
\* stored, after every request but a successful Update Order of it, which
\* stores the status its payload names (PENDING when it names none).
C4_CancelledUntilUpdateOrder ==
    \A o \in DOMAIN before.orders \cap DOMAIN orders :
        StatusOf(before, o) = "CANCELLED" =>
            IF Answered("update_order") /\ response.order_id = o
                  /\ response.code = 200
            THEN StatusOf(Stored, o) =
                    IF Has(response.data, "status")
                    THEN RecognizedAs(response.data.status)
                    ELSE "PENDING"
            ELSE StatusOf(Stored, o) = "CANCELLED"

\* C4 witness: an item is added to a CANCELLED order, which stays CANCELLED
C4_Witness ==
    /\ Answered("create_item")
    /\ response.code = 201
    /\ StatusOf(before, response.order_id) = "CANCELLED"
    /\ StatusOf(Stored, response.order_id) = "CANCELLED"

C6_CreateWithoutNameRejected ==
    (Answered("create_order") /\ ~Has(response.data, "customer_name"))
        => /\ response.code = 400
           /\ TablesUnchanged

\* C6 witness: such a request refused while an order with an item is stored
C6_Witness ==
    /\ Answered("create_order")
    /\ ~Has(response.data, "customer_name")
    /\ response.code = 400
    /\ DOMAIN orders # {}
    /\ DOMAIN items # {}

\* C7: no stored order has an empty customer_name; Create Order and Update
\* Order with the empty string as customer_name answer 400 and change no row.
C7_CustomerNameNeverEmpty ==
    /\ \A o \in DOMAIN orders : orders[o].customer_name # JStr("")
    /\ (/\ Answered("create_order") \/ Answered("update_order")
        /\ response.data.customer_name = JStr(""))
          => response.code \in {400, 404} /\ TablesUnchanged

\* C8: every stored order's status is one of the six; a create or update
\* payload's status is matched whatever its letter case and stored as the
\* status it names, and a value that names none is refused with 400.
C8_StatusAlwaysInSet ==
    /\ \A o \in DOMAIN orders :
          orders[o].status \in
             {Enum("PENDING"), Enum("CREATED"), Enum("IN_PROGRESS"),
              Enum("SHIPPED"), Enum("COMPLETED"), Enum("CANCELLED")}
    /\ (/\ Answered("create_order") \/
           (Answered("update_order") /\ response.order_id \in DOMAIN before.orders)
        /\ Has(response.data, "customer_name")
        /\ Has(response.data, "status"))
          => IF RecognizedAs(response.data.status) # ""
             THEN /\ response.data.items = <<>> => response.code \in {200, 201}
                  /\ response.code \in {200, 201}
                        => StatusOf(Stored, response.body.id.v) =
                              RecognizedAs(response.data.status)
             ELSE response.code = 400 /\ TablesUnchanged

\* C8 witness: a status in lower case is stored as the status it names
C8_Witness ==
    /\ Answered("create_order")
    /\ response.data.status = JStr("shipped")
    /\ response.code = 201
    /\ StatusOf(Stored, response.body.id.v) = "SHIPPED"

\* C9: Update Order with a payload whose status names no status or that has no
\* customer_name answers 400 and changes no row, so that a Get Order returns
\* the customer_name, status and items stored before; on an id that is not
\* stored it answers 404 and changes no row.
C9_InvalidUpdateRejected ==
    /\ Answered("update_order") =>
          LET o == response.order_id IN
          /\ o \notin DOMAIN before.orders
                => response.code = 404 /\ TablesUnchanged
          /\ (/\ o \in DOMAIN before.orders
              /\ \/ ~Has(response.data, "customer_name")
                 \/ /\ Has(response.data, "status")
                    /\ RecognizedAs(response.data.status) = "")
                => response.code = 400 /\ TablesUnchanged
    /\ (Answered("retrieve_order") /\ response.code = 200) =>
          LET o == response.order_id IN
          /\ TablesUnchanged
          /\ response.body.customer_name = orders[o].customer_name
          /\ response.body.status = JStr(StatusOf(Stored, o))
          /\ {response.body.items[k].id.v : k \in 1..Len(response.body.items)}
                = ItemsOf(Stored, o)
          /\ \A k \in 1..Len(response.body.items) :
                LET i == response.body.items[k] IN
                /\ i.name = items[i.id.v].name
                /\ i.price = items[i.id.v].price
                /\ i.quantity = items[i.id.v].quantity

\* C9 witness: an update that names another customer and no status is refused
C9_Witness ==
    /\ Answered("update_order")
    /\ response.order_id \in DOMAIN before.orders
    /\ before.orders[response.order_id].customer_name = JStr("alice")
    /\ response.data.customer_name = JStr("")
    /\ response.data.status = JStr("BOGUS")
    /\ response.code = 400
    /\ orders[response.order_id].customer_name = JStr("alice")

\* C10: Delete Order removes the order and, in the same step, every item
\* attached to it; no stored item ever references an order that is not
\* stored, and retrieving an item that is not stored answers 404.
C10_DeleteOrderCascades ==
    /\ (Answered("delete_order") /\ response.order_id \in DOMAIN before.orders)
          => /\ response.code = 204
             /\ response.order_id \notin DOMAIN orders
             /\ \A i \in ItemsOf(before, response.order_id) : i \notin DOMAIN items
    /\ \A i \in DOMAIN items :
          items[i].order_id # JNull => items[i].order_id.v \in DOMAIN orders
    /\ (Answered("retrieve_item") /\ response.item_id \notin DOMAIN items)
          => response.code = 404

\* C10 witness: an order with two items is deleted, and both items with it
C10_Witness ==
    /\ Answered("delete_order")
    /\ response.order_id \in DOMAIN before.orders
    /\ Cardinality(ItemsOf(before, response.order_id)) >= 2
    /\ \A i \in ItemsOf(before, response.order_id) : i \notin DOMAIN items

C12_DeleteAbsentOrderIs404 ==
    (Answered("delete_order") /\ response.order_id \notin DOMAIN before.orders)
        => /\ response.code = 404
           /\ orders = before.orders

\* the item addressed by the request being answered was, when the request
\* arrived, stored and attached to the order addressed, itself stored
ItemAddressedInOrder ==
    /\ response.order_id \in DOMAIN before.orders
    /\ response.item_id \in DOMAIN before.items
    /\ before.items[response.item_id].order_id = JNum(response.order_id)

\* a payload value that is there and is no number
NotNumeric(x) == x # Absent /\ ~IsNumeric(x)

\* C13: Update Item through an order that is not the item's owner (item and
\* order both stored, item.order_id another order's), through an order that
\* is not stored, or for an item that is not stored, answers 404 and leaves
\* every row as it was: name, price, quantity and order_id of the item.
C13_UpdateItemWrongOrderNotFound ==
    (Answered("update_item") /\ ~ItemAddressedInOrder)
        => /\ response.code = 404
           /\ TablesUnchanged

\* C13 witness: a complete payload sent for an item through a stored order
\* that is not its owner, the owner being stored too
C13_Witness ==
    /\ Answered("update_item")
    /\ response.order_id \in DOMAIN before.orders
    /\ response.item_id \in DOMAIN before.items
    /\ before.items[response.item_id].order_id # JNull
    /\ before.items[response.item_id].order_id # JNum(response.order_id)
    /\ before.items[response.item_id].order_id.v \in DOMAIN before.orders
    /\ ItemPayloadComplete(response.data)
    /\ response.code = 404
    /\ items[response.item_id] = before.items[response.item_id]

\* C14: Delete Item answers 404 and deletes nothing when the order is not
\* stored, when the item is not stored, or when the item is attached to
\* another order; the only rows it ever removes are items of the order
\* addressed.
C14_DeleteItemChecksOwner ==
    Answered("delete_item") =>
        /\ ~ItemAddressedInOrder => (response.code = 404 /\ TablesUnchanged)
        /\ \A i \in DOMAIN before.items \ DOMAIN items :
              before.items[i].order_id = JNum(response.order_id)

\* C15: every stored item has an order_id that is not null and is the id of
\* a stored order, and Update Item never changes the order_id of an item,
\* whatever order_id its payload carries or leaves out.
C15_ItemAlwaysInOneOrder ==
    /\ \A i \in DOMAIN items :
          /\ items[i].order_id # JNull
          /\ items[i].order_id.v \in DOMAIN orders
    /\ Answered("update_item") =>
          \A i \in DOMAIN items \cap DOMAIN before.items :
              items[i].order_id = before.items[i].order_id

\* C16: Create Item and Update Item with a payload that has a name and whose
\* price or quantity is there but is no number are answered 400 with a
\* message that begins "Invalid Item: incorrect data type" and change no row;
\* a payload without a name is answered 400 with "Invalid Item: missing name".
C16_ItemNotNumericIsValidationError ==
    LET reached == \/ /\ Answered("create_item")
                      /\ response.order_id \in DOMAIN before.orders
                   \/ /\ Answered("update_item")
                      /\ ItemAddressedInOrder
        data == response.data
    IN
    reached =>
        /\ (Has(data, "name")
            /\ (NotNumeric(data.price) \/ NotNumeric(data.quantity)))
              => /\ response.code = 400
                 /\ Len(response.body.message) >= 1
                 /\ response.body.message[1] = "Invalid Item: incorrect data type "
                 /\ TablesUnchanged
        /\ ~Has(data, "name")
              => /\ response.code = 400
                 /\ response.body.message = <<"Invalid Item: missing ", "name">>
                 /\ TablesUnchanged

\* C17: every stored item has a price and a quantity that are not negative.
C17_ItemPriceQuantityNotNegative ==
    \A i \in DOMAIN items :
        /\ items[i].price.v >= 0
        /\ items[i].quantity.v >= 0

\* the ids of the orders listed in the response being given
ListedIds == {response.body[k].id.v : k \in 1..Len(response.body)}

\* a stored order has an item of this name
HasItemNamed(tables, o, name) ==
    \E i \in ItemsOf(tables, o) : tables.items[i].name = name

\* a stored order satisfies every filter the query string provides
MatchesAll(tables, o, args) ==
    /\ args.customer_name # JNull
          => tables.orders[o].customer_name = args.customer_name
    /\ args.status # JNull => StatusOf(tables, o) = RecognizedAs(args.status)
    /\ args.order_id # JNull => o = args.order_id.v
    /\ args.product_name # JNull => HasItemNamed(tables, o, args.product_name)

\* the product_name filter is the only one the query string provides
ProductNameFilterAlone ==
    /\ Answered("list_orders")
    /\ response.data.product_name # JNull
    /\ response.data.customer_name = JNull
    /\ response.data.status = JNull
    /\ response.data.order_id = JNull

\* the status filter is the only one the query string provides
StatusFilterAlone ==
    /\ Answered("list_orders")
    /\ response.data.status # JNull
    /\ response.data.customer_name = JNull
    /\ response.data.order_id = JNull
    /\ response.data.product_name = JNull

\* C18: List Orders returns exactly the stored orders that satisfy every
\* filter provided (all stored orders when none is provided), and changes no
\* row.
C18_FindReturnsExactlyTheMatches ==
    Answered("list_orders") =>
        /\ response.code = 200
        /\ ListedIds = {o \in DOMAIN before.orders :
                           MatchesAll(before, o, response.data)}
        /\ TablesUnchanged

OrderIdFilterAlone ==
    /\ Answered("list_orders")
    /\ response.data.order_id # JNull
    /\ response.data.customer_name = JNull
    /\ response.data.status = JNull
    /\ response.data.product_name = JNull

\* the customer_name filter is the only one the query string provides
CustomerNameFilterAlone ==
    /\ Answered("list_orders")
    /\ response.data.customer_name # JNull
    /\ response.data.order_id = JNull
    /\ response.data.status = JNull
    /\ response.data.product_name = JNull

\* C21: with the order_id filter alone and any integer k, exactly the stored
\* orders of id k are listed: one at most, none when no stored order has id
\* k (k = 0); with the customer_name filter alone, exactly the stored orders
\* whose customer_name is the string given.
C21_OrderIdFilterExactMatch ==
    /\ OrderIdFilterAlone
          => /\ ListedIds = {o \in DOMAIN before.orders :
                                o = response.data.order_id.v}
             /\ Len(response.body) <= 1
    /\ CustomerNameFilterAlone
          => ListedIds = {o \in DOMAIN before.orders :
                             before.orders[o].customer_name =
                                response.data.customer_name}

\* the number of orders on a page: those of the slice
\* [(page-1)*page_size, page*page_size) of a collection of total_items
SliceLen(total_items, page, page_size) ==
    LET first == (page - 1) * page_size
        left == IF total_items > first THEN total_items - first ELSE 0
    IN IF left < page_size THEN left ELSE page_size

\* C22: List Orders is paginated, page 1 and page_size 10 when not given: the
\* response lists the orders of the slice [(page-1)*page_size, page*page_size)
\* of the filtered collection and no more, none for a page out of range.
C22_ListOrdersPaginated ==
    (/\ Answered("list_orders")
     /\ response.data.status = JNull
     /\ response.data.order_id = JNull
     /\ response.data.product_name = JNull
     /\ response.data.customer_name # JStr(""))
        => LET page == IF response.data.page = JNull
                       THEN 1 ELSE response.data.page.v
               page_size == IF response.data.page_size = JNull
                            THEN 10 ELSE response.data.page_size.v
               filtered == {o \in DOMAIN before.orders :
                               MatchesAll(before, o, response.data)}
           IN /\ ListedIds \subseteq filtered
              /\ Len(response.body) =
                    SliceLen(Cardinality(filtered), page, page_size)

\* C23: the created_at of a stored order never changes: whatever request is
\* answered, every order stored before it and after it has the created_at it
\* had.
C23_CreatedAtNeverMutated ==
    ~Answered("none") =>
        \A o \in DOMAIN orders \cap DOMAIN before.orders :
            orders[o].created_at = before.orders[o].created_at

\* C24: every stored order has created_at <= updated_at, also when its
\* created_at came from a payload.
C24_CreatedNotAfterUpdated ==
    \A o \in DOMAIN orders : orders[o].created_at.v <= orders[o].updated_at.v

\* the update of an item whose commit the database refuses: the item is
\* addressed through its order with a complete payload that names, as
\* order_id, an order that is not stored
UpdateItemCommitFails ==
    /\ Answered("update_item")
    /\ ItemAddressedInOrder
    /\ ItemPayloadComplete(response.data)
    /\ response.data.order_id \notin {Absent, JNull}
    /\ response.data.order_id.v \notin DOMAIN before.orders

RoundTrip(order) ==
    LET serialized == Order_serialize(order)
        back == Order_deserialize(Order_new, serialized.json)
    IN /\ serialized.err = NoError
       /\ back.err = NoError
       /\ back.order.customer_name = order.customer_name
       /\ back.order.status = order.status
       /\ Len(back.order.items) = Len(order.items)
       /\ \A k \in 1..Len(order.items) :
             /\ back.order.items[k].name = order.items[k].name
             /\ back.order.items[k].price = order.items[k].price
             /\ back.order.items[k].quantity = order.items[k].quantity

AllAnswered ==
    /\ ~Quiescent
    /\ \A w \in Workers : sessions[w].loaded = JNull

\* the requests of the burst answered so far that addressed order o, as
\* <<worker, place in its answers>>
AnsweredOn(o) ==
    {r \in Workers \X (1..MaxServed) :
        /\ r[2] <= Len(sessions[r[1]].served)
        /\ sessions[r[1]].served[r[2]].order_id = o}

\* the answer to request r
AnswerTo(r) == sessions[r[1]].served[r[2]]

\* C27: a burst of one cancel and one advance on the same order, the order with
\* an item and not COMPLETED nor CANCELLED when the burst began, the cancel
\* answered 200: once both are answered the stored status is CANCELLED.
C27_CancelWinsOverConcurrentAdvance ==
    \A o \in DOMAIN before.orders :
        ( /\ AllAnswered
          /\ Enum(StatusOf(before, o)) \notin Terminal_statuses
          /\ ItemsOf(before, o) # {}
          /\ Cardinality(AnsweredOn(o)) = 2
          /\ \E c, a \in AnsweredOn(o) :
                /\ c[1] # a[1]
                /\ AnswerTo(c).op = "cancel_order"
                /\ AnswerTo(c).code = HTTP_200_OK
                /\ AnswerTo(a).op = "update_order_status" )
        => StatusOf(Stored, o) = "CANCELLED"

\* C28: a burst of advance requests only on an order: once all are answered,
\* the stored status is as many places after the status the burst found as
\* there are requests answered 200 (so it never moved backward and no
\* successful advance was lost).
C28_ConcurrentAdvancesAllCount ==
    \A o \in DOMAIN before.orders :
        ( /\ AllAnswered
          /\ \A r \in AnsweredOn(o) : AnswerTo(r).op = "update_order_status" )
        => OrderStatus_index(StatusOf(Stored, o)) =
              OrderStatus_index(StatusOf(before, o)) +
              Cardinality({r \in AnsweredOn(o) : AnswerTo(r).code = HTTP_200_OK})

\* between two states of a burst of advance requests only, the stored status
\* of an order does not move to an earlier place of the sequence
AdvancesNeverMoveBackward ==
    [][\A o \in DOMAIN orders :
          (\A w \in Workers :
              /\ sessions[w].loaded # JNull =>
                     sessions[w].loaded.op = "update_order_status"
              /\ \A k \in 1..Len(sessions[w].served) :
                     sessions[w].served[k].op = "update_order_status")
          => OrderStatus_index(orders'[o].status.v) >=
                OrderStatus_index(orders[o].status.v)]_vars

\* C29: a PUT /orders/{id} answered 200 leaves every item the order had as it
\* was and adds as many items as the payload lists: none for an empty list,
\* n more for the order's own representation with its n items.
C29_UpdateOrderOnlyAppendsItems ==
    (Answered("update_order") /\ response.code = HTTP_200_OK) =>
        LET o == response.order_id IN
        /\ \A i \in ItemsOf(before, o) :
              i \in DOMAIN items /\ items[i] = before.items[i]
        /\ Cardinality(ItemsOf(Stored, o)) =
              Cardinality(ItemsOf(before, o)) + Len(response.data.items)

\* C29 witness: an order with one item was sent its own representation and
\* has two items
C29_Witness ==
    /\ Answered("update_order")
    /\ response.code = HTTP_200_OK
    /\ Cardinality(ItemsOf(before, response.order_id)) = 1
    /\ response.data.items =
          [k \in 1..1 |->
              Item_serialize(Order_items(before, response.order_id)[k])]
    /\ Cardinality(ItemsOf(Stored, response.order_id)) = 2

\* C30: a PUT /orders/{id} answered 200 whose payload has no status leaves the
\* order PENDING whatever its status was; with a status, the order has the
\* status named; so an order that was not PENDING keeps its status only if the
\* payload names that status.
C30_UpdateWithoutStatusResetsToPending ==
    (Answered("update_order") /\ response.code = HTTP_200_OK) =>
        LET o == response.order_id IN
        /\ ~Has(response.data, "status") => StatusOf(Stored, o) = "PENDING"
        /\ Has(response.data, "status") =>
              StatusOf(Stored, o) = RecognizedAs(response.data.status)
        /\ (/\ StatusOf(Stored, o) = StatusOf(before, o)
            /\ StatusOf(before, o) # "PENDING")
              => /\ Has(response.data, "status")
                 /\ RecognizedAs(response.data.status) = StatusOf(before, o)

\* C30 witness: a COMPLETED order updated with a payload that has no status is
\* PENDING
C30_Witness ==
    /\ Answered("update_order")
    /\ response.code = HTTP_200_OK
    /\ ~Has(response.data, "status")
    /\ StatusOf(before, response.order_id) = "COMPLETED"
    /\ StatusOf(Stored, response.order_id) = "PENDING"

====
